---- MODULE Spec2Model ----
(***************************************************************************)
(* Model of the scrape task manager (app/scraper_manager.py), the Google   *)
(* Maps extraction it drives (app/scrapers/googlemaps.py) and the text     *)
(* helpers (app/utils.py).                                                 *)
(*                                                                         *)
(* Scheduling.  Every request handler and every background run is a        *)
(* coroutine of one asyncio event loop.  start_scraping schedules the run  *)
(* with asyncio.create_task and returns without awaiting it.  The run      *)
(* awaits scrape_googlemaps, an async def whose body holds no await (it    *)
(* waits with time.sleep and blocking Selenium calls), so once a run has   *)
(* started it keeps the loop until _run_scraper ends.  `active` is the     *)
(* task whose run holds the loop and `pc` its position; handlers and other *)
(* runs take steps only while active = NoTask.  A run is split into one    *)
(* step per write to the task store, so every stored value is a state.     *)
(*                                                                         *)
(* Strings that the code inspects (business names, phone numbers) are      *)
(* sequences of one-character strings; messages and file names are         *)
(* sequences of their formatted parts.  None is <<>> for optional strings  *)
(* and records, and NoTime for an optional datetime.                       *)
(***************************************************************************)
EXTENDS Integers, Sequences, FiniteSets, TLC

\* ------------------------------------------------------------------ bounds
\* Number of tasks submitted in a run of the model.
MaxTasks == 2
\* Largest number of unique listing elements one search yields.
MaxElements == 3
\* Longest business name given to create_business_key on its own.
MaxNameLen == 3
\* longest text handed to clean_text and clean_phone
MaxTextLen == 3

\* ------------------------------------------------- constants of the program
\* extract_google_maps_results_enhanced processes unique_elements[:20].
ElementLimit == 20
\* create_business_key appends the digits when there are more than 7.
PhoneDigits == 7
\* ScrapeRequest.max_pages default used by _run_scraper.
DefaultMaxPages == 5

NoTask == 0
NoTime == -1
None == <<>>
\* None where a str is expected and the empty string has to be told apart from
\* it: a value that no str (a sequence of characters) is equal to.
Absent == <<"None">>

\* ----------------------------------------------------------- text helpers
UpperLetters == <<"A","B","C","D","E","F","G","H","I","J","K","L","M",
                  "N","O","P","Q","R","S","T","U","V","W","X","Y","Z">>
LowerLetters == <<"a","b","c","d","e","f","g","h","i","j","k","l","m",
                  "n","o","p","q","r","s","t","u","v","w","x","y","z">>
Range(s) == {s[i] : i \in DOMAIN s}

UpperSet == Range(UpperLetters)
DigitSet == {"0","1","2","3","4","5","6","7","8","9"}
SpaceSet == {" ", "\t", "\n", "\r"}
WordSet == UpperSet \cup Range(LowerLetters) \cup DigitSet \cup {"_"}
LowerOf == [c \in UpperSet |->
              LowerLetters[CHOOSE i \in DOMAIN UpperLetters : UpperLetters[i] = c]]

\* \d of the re module
IsDigit(c) == c \in DigitSet
\* \s of the re module
IsSpace(c) == c \in SpaceSet
\* \w of the re module
IsWord(c) == c \in WordSet

\* str.lower() on one character
LowerChar(c) == IF c \in UpperSet THEN LowerOf[c] ELSE c
Lower(s) == [i \in DOMAIN s |-> LowerChar(s[i])]

RECURSIVE LStrip(_)
LStrip(s) == IF s # <<>> /\ IsSpace(Head(s)) THEN LStrip(Tail(s)) ELSE s
RECURSIVE RStrip(_)
RStrip(s) == IF s # <<>> /\ IsSpace(s[Len(s)]) THEN RStrip(SubSeq(s, 1, Len(s) - 1)) ELSE s
\* str.strip()
Strip(s) == RStrip(LStrip(s))

IsWordOrSpace(c) == IsWord(c) \/ IsSpace(c)
\* re.sub(r'[^\w\s]', '', s)
DropPunctuation(s) == SelectSeq(s, IsWordOrSpace)

\* re.sub(r'\s+', ' ', s): every maximal run of whitespace becomes one space
RECURSIVE CollapseSpaces(_)
CollapseSpaces(s) ==
    IF s = <<>> THEN <<>>
    ELSE IF IsSpace(Head(s))
         THEN <<" ">> \o CollapseSpaces(LStrip(s))
         ELSE <<Head(s)>> \o CollapseSpaces(Tail(s))

\* re.sub(r'[^\d]', '', s)
OnlyDigits(s) == SelectSeq(s, IsDigit)

\* create_business_key, with the threshold test of the composite key replaced
\* by "more than 0 digits" (mutant)
create_business_key_any_phone(business_data) ==
    LET name_key == CollapseSpaces(DropPunctuation(Strip(Lower(business_data.business_name))))
        phone_key == OnlyDigits(business_data.mobile)
    IN  IF phone_key # <<>> THEN name_key \o <<"_">> \o phone_key ELSE name_key

\* create_business_key(business_data)
create_business_key(business_data) ==
    LET name_key == CollapseSpaces(DropPunctuation(Strip(Lower(business_data.business_name))))
        phone_key == OnlyDigits(business_data.mobile)
    IN  IF phone_key # <<>> /\ Len(phone_key) > PhoneDigits
        THEN name_key \o <<"_">> \o phone_key
        ELSE name_key

\* str.replace(old, new) for one character replaced by one character
ReplaceChar(s, old, new) == [i \in DOMAIN s |-> IF s[i] = old THEN new ELSE s[i]]
\* str.replace(old, '') for one character
RemoveChar(s, old) == LET Kept(c) == c # old IN SelectSeq(s, Kept)

\* clean_text without the strip() (mutant)
clean_text_no_strip(text) ==
    IF text \in {Absent, <<>>}
    THEN <<>>
    ELSE ReplaceChar(ReplaceChar(ReplaceChar(text, "\n", " "), "\r", " "), "\t", " ")

\* clean_text(text): `not text` holds for None and for ''
clean_text(text) ==
    IF text \in {Absent, <<>>}
    THEN <<>>
    ELSE ReplaceChar(ReplaceChar(ReplaceChar(Strip(text), "\n", " "), "\r", " "), "\t", " ")

\* clean_phone without the replace of '+' (mutant)
clean_phone_keep_plus(phone) ==
    IF phone \in {Absent, <<>>}
    THEN <<>>
    ELSE Strip(RemoveChar(RemoveChar(RemoveChar(RemoveChar(phone, "("), ")"), "-"), " "))

\* clean_phone(phone)
clean_phone(phone) ==
    IF phone \in {Absent, <<>>}
    THEN <<>>
    ELSE LET cleaned == RemoveChar(RemoveChar(RemoveChar(RemoveChar(RemoveChar(
                            phone, "("), ")"), "-"), " "), "+")
         IN  Strip(cleaned)

\* --------------------------------------------------------------- the inputs
\* What extract_google_maps_business_data can return for one listing: None
\* (no name found, or an exception) or a BusinessData whose name went through
\* clean_text and is longer than 3 and whose mobile went through clean_phone.
\* The three listings: two spellings of one name, one without a phone and one
\* with 7 digits (the same key), and the name with 11 digits (another key).
AlNoorCafe == <<"A","l"," ","N","o","o","r"," ","C","a","f","e">>
alNOORcafe == <<"a","l"," "," "," ","N","O","O","R"," ","c","a","f","e">>
Phone11 == <<"9","7","1","4","1","2","3","4","5","6","7">>
Phone7 == <<"1","2","3","4","5","6","7">>

BusinessData(name, mobile) == [business_name |-> name, mobile |-> mobile]

Candidates ==
    { BusinessData(alNOORcafe, <<>>),
      BusinessData(AlNoorCafe, Phone11),
      BusinessData(AlNoorCafe, Phone7) }

\* An optional BusinessData: <<>> is None, <<bd>> a record.
Extracted == {None} \cup {<<bd>> : bd \in Candidates}

\* create_business_key tabulated over the listings (computed once).
business_keys == [bd \in Candidates |-> create_business_key(bd)]
business_key_of(business_data) == business_keys[business_data]

\* The scraper names a caller may pass and the registry of __init__.
ScraperNames == {"googlemaps", "yellowpages"}
scrapers == {"googlemaps"}
scraper_display_names(name) == IF name = "googlemaps" THEN "Google Maps UAE" ELSE name

\* The params dict: max_pages is an int, None, or absent (the default applies).
PyInt(n) == [type |-> "int", value |-> n]
PyNone == [type |-> "NoneType", value |-> 0]
ParamsSet ==
    { [search_term |-> "cafes", location |-> "Dubai", max_pages |-> <<PyInt(2)>>],
      [search_term |-> "", location |-> "", max_pages |-> <<PyNone>>] }

\* params.get('max_pages', 5)
GetMaxPages(params) ==
    IF params.max_pages = <<>> THEN PyInt(DefaultMaxPages) ELSE params.max_pages[1]

\* ScrapeRequest(...) validates max_pages: int and raises otherwise.
RequestIsValid(params) == GetMaxPages(params).type = "int"

\* The exceptions the model raises, by their str().
ValidationError == "1 validation error for ScrapeRequest"
DriverError == "session not created"
AccessBlocked == "Google Maps access blocked"
ExportError == "Permission denied: exports"

VARIABLES
    tasks,          \* ScraperManager.tasks: task id -> ScraperTask (ids are 1, 2, ...)
    daily_stats,    \* ScraperManager.daily_stats: sequence of ScrapeStats
    ready,          \* runs scheduled by asyncio.create_task, oldest first
    frame,          \* arguments of the run that holds the event loop, or NoFrame
    pc,             \* position of that run
    results,        \* scrape-local: accepted records
    seen_businesses,\* scrape-local: keys of the accepted records
    n_elements,     \* scrape-local: len(unique_elements)
    idx,            \* scrape-local: loop index i
    error,          \* scrape-local: str(e) of the exception being handled
    filename,       \* scrape-local: export base name
    exports,        \* files present in the export directory
    clock,          \* the wall clock: the number of times it was read
    response,       \* what the start_scraping call that just ended returned or
                    \* raised; it is delivered before the loop runs anything else
    offered,        \* history: the named records the extraction loop of the
                    \* active run yielded
    returned,       \* history: task id -> the dict scrape_googlemaps returned
    raised,         \* history: task id -> str(e) the scraper function raised
    invoked,        \* history: task id -> number of scraper invocations
    exported,       \* history: task id -> number of times the export was run
    arg,            \* the argument of the helper function under evaluation
    ret             \* what that evaluation returned or raised

vars == <<tasks, daily_stats, ready, frame, pc, results, seen_businesses,
          n_elements, idx, error, filename, exports, clock, response, offered,
          returned, raised, invoked, exported, arg, ret>>

local == <<results, seen_businesses, n_elements, idx, error, filename, offered>>
history == <<returned, raised, invoked, exported>>
program == <<tasks, daily_stats, ready, frame, pc, local, exports, clock, response, history>>
pure == <<arg, ret>>

Terminal == {"completed", "failed"}

\* No handler has just returned.
NoResponse == [op |-> "none", raised |-> "", task_id |-> NoTask]
\* No helper evaluation is in progress.
NoArg == [fn |-> "none"]
NoRet == [fn |-> "none"]

NoFrame == [task_id |-> NoTask, scraper_name |-> "", params |-> <<>>]
\* The task whose run holds the event loop.
active == frame.task_id

InitProgram ==
    /\ tasks = <<>>
    /\ daily_stats = <<>>
    /\ ready = <<>>
    /\ frame = NoFrame
    /\ pc = "idle"
    /\ results = <<>>
    /\ seen_businesses = {}
    /\ n_elements = 0
    /\ idx = 0
    /\ error = ""
    /\ filename = None
    /\ exports = {}
    /\ clock = 0
    /\ response = NoResponse
    /\ offered = <<>>
    /\ returned = <<>>
    /\ raised = <<>>
    /\ invoked = <<>>
    /\ exported = <<>>

\* The program after construction; no helper is under evaluation.
Init ==
    /\ InitProgram
    /\ arg = NoArg
    /\ ret = NoRet

\* datetime.now() and create_timestamp() read `clock`, and every read advances
\* it: two reads never return the same time.  (Reads lie microseconds apart for
\* datetime.now(); two exports lie more than a second apart, since every run
\* that reaches the export has slept in time.sleep and runs do not overlap.)
Now == clock

\* ------------------------------------------------------------ task manager
\* ScraperTask(...) of start_scraping
NewTask(task_id, scraper_name, now) ==
    [task_id |-> task_id, scraper_name |-> scraper_name, status |-> "pending",
     progress |-> 0, message |-> <<"Initializing...">>, created_at |-> now,
     completed_at |-> NoTime, filename |-> None, total_records |-> 0]

\* start_scraping without the registry test (mutant)
start_scraping_unchecked(scraper_name, params) ==
    /\ active = NoTask
    /\ Len(tasks) < MaxTasks
    /\ LET task_id == Len(tasks) + 1
       IN  /\ tasks' = Append(tasks, NewTask(task_id, scraper_name, Now))
           /\ ready' = Append(ready, [task_id |-> task_id, scraper_name |-> scraper_name,
                                      params |-> params])
           /\ response' = [op |-> "start_scraping", raised |-> "", task_id |-> task_id]
    /\ returned' = Append(returned, None)
    /\ raised' = Append(raised, "")
    /\ invoked' = Append(invoked, 0)
    /\ exported' = Append(exported, 0)
    /\ clock' = clock + 1
    /\ UNCHANGED <<pure, daily_stats, frame, pc, local, exports>>

\* start_scraping running the new task's first step itself instead of
\* scheduling it (mutant)
start_scraping_eager(scraper_name, params) ==
    /\ active = NoTask
    /\ scraper_name \in scrapers
    /\ Len(tasks) < MaxTasks
    /\ LET task_id == Len(tasks) + 1
       IN  /\ tasks' = Append(tasks, [NewTask(task_id, scraper_name, Now)
                                        EXCEPT !.status = "running",
                                               !.message = <<"Starting scraper...">>])
           /\ frame' = [task_id |-> task_id, scraper_name |-> scraper_name, params |-> params]
           /\ response' = [op |-> "start_scraping", raised |-> "", task_id |-> task_id]
    /\ pc' = "running"
    /\ returned' = Append(returned, None)
    /\ raised' = Append(raised, "")
    /\ invoked' = Append(invoked, 0)
    /\ exported' = Append(exported, 0)
    /\ clock' = clock + 1
    /\ UNCHANGED <<pure, daily_stats, ready, local, exports>>

\* start_scraping creating the task without scheduling its run (mutant)
start_scraping_unscheduled(scraper_name, params) ==
    /\ active = NoTask
    /\ scraper_name \in scrapers
    /\ Len(tasks) < MaxTasks
    /\ LET task_id == Len(tasks) + 1
       IN  /\ tasks' = Append(tasks, NewTask(task_id, scraper_name, Now))
           /\ response' = [op |-> "start_scraping", raised |-> "", task_id |-> task_id]
    /\ returned' = Append(returned, None)
    /\ raised' = Append(raised, "")
    /\ invoked' = Append(invoked, 0)
    /\ exported' = Append(exported, 0)
    /\ clock' = clock + 1
    /\ UNCHANGED <<pure, daily_stats, ready, frame, pc, local, exports>>

\* start_scraping taking the id of the last stored task instead of an unused
\* one, so that the entry of that task is replaced (mutant)
start_scraping_reuse_id(scraper_name, params) ==
    /\ active = NoTask
    /\ \/ /\ scraper_name \notin scrapers
          /\ response' = [op |-> "start_scraping",
                          raised |-> "Unknown scraper", task_id |-> NoTask]
          /\ UNCHANGED <<pure, tasks, daily_stats, ready, frame, pc, local, exports, clock, history>>
       \/ /\ scraper_name \in scrapers
          /\ Len(tasks) < MaxTasks
          /\ LET task_id == IF tasks = <<>> THEN 1 ELSE Len(tasks)
             IN  /\ tasks' = IF tasks = <<>>
                              THEN <<NewTask(task_id, scraper_name, Now)>>
                              ELSE [tasks EXCEPT ![task_id] = NewTask(task_id, scraper_name, Now)]
                 /\ ready' = Append(ready, [task_id |-> task_id,
                                            scraper_name |-> scraper_name,
                                            params |-> params])
                 /\ response' = [op |-> "start_scraping", raised |-> "", task_id |-> task_id]
          /\ returned' = Append(returned, None)
          /\ raised' = Append(raised, "")
          /\ invoked' = Append(invoked, 0)
          /\ exported' = Append(exported, 0)
          /\ clock' = clock + 1
          /\ UNCHANGED <<pure, daily_stats, frame, pc, local, exports>>

\* start_scraping(scraper_name, params): a request handler, so it runs only
\* while no run holds the loop.  The uuid4 is the next unused id.
start_scraping(scraper_name, params) ==
    /\ active = NoTask
    /\ \/ /\ scraper_name \notin scrapers
          /\ response' = [op |-> "start_scraping",
                          raised |-> "Unknown scraper", task_id |-> NoTask]
          /\ UNCHANGED <<pure, tasks, daily_stats, ready, frame, pc, local, exports, clock, history>>
       \/ /\ scraper_name \in scrapers
          /\ Len(tasks) < MaxTasks
          /\ LET task_id == Len(tasks) + 1
             IN  /\ tasks' = Append(tasks, NewTask(task_id, scraper_name, Now))
                 /\ ready' = Append(ready, [task_id |-> task_id,
                                            scraper_name |-> scraper_name,
                                            params |-> params])
                 /\ response' = [op |-> "start_scraping", raised |-> "", task_id |-> task_id]
          /\ returned' = Append(returned, None)
          /\ raised' = Append(raised, "")
          /\ invoked' = Append(invoked, 0)
          /\ exported' = Append(exported, 0)
          /\ clock' = clock + 1
          /\ UNCHANGED <<pure, daily_stats, frame, pc, local, exports>>

\* progress_callback writing through to every task of the store (mutant)
progress_callback_all(ts, tid, progress, message) ==
    [t \in DOMAIN ts |-> [ts[t] EXCEPT !.progress = progress, !.message = message]]

\* progress_callback keeping the larger of the stored and the reported
\* progress (mutant)
progress_callback_keep_max(ts, tid, progress, message) ==
    IF tid \in DOMAIN ts
    THEN [ts EXCEPT ![tid].progress = IF @ > progress THEN @ ELSE progress,
                    ![tid].message = message]
    ELSE ts

\* progress_callback(tid, progress, message) of _run_scraper
progress_callback(ts, tid, progress, message) ==
    IF tid \in DOMAIN ts
    THEN [ts EXCEPT ![tid].progress = progress, ![tid].message = message]
    ELSE ts

\* A progress callback of the active run.
Report(progress, message) ==
    tasks' = progress_callback(tasks, active, progress, message)

\* The end of a run with the seen keys kept, as a set shared by all runs
\* would be (mutant)
ResetLocal_shared_seen ==
    /\ results' = <<>>
    /\ UNCHANGED seen_businesses
    /\ n_elements' = 0
    /\ idx' = 0
    /\ error' = ""
    /\ filename' = None
    /\ offered' = <<>>

\* The scrape-local state is dropped when the run ends.
ResetLocal ==
    /\ results' = <<>>
    /\ seen_businesses' = {}
    /\ n_elements' = 0
    /\ idx' = 0
    /\ error' = ""
    /\ filename' = None
    /\ offered' = <<>>

\* _run_scraper starting without marking its task running (mutant)
run_scraper_begin_unmarked ==
    /\ active = NoTask
    /\ ready # <<>>
    /\ frame' = Head(ready)
    /\ ready' = Tail(ready)
    /\ tasks' = [tasks EXCEPT ![Head(ready).task_id].message = <<"Starting scraper...">>]
    /\ pc' = "running"
    /\ response' = NoResponse
    /\ UNCHANGED <<pure, daily_stats, local, exports, clock, history>>

\* _run_scraper scheduling itself again when it starts, as a retry would
\* (mutant)
run_scraper_begin_requeue ==
    /\ active = NoTask
    /\ ready # <<>>
    /\ frame' = Head(ready)
    /\ ready' = Append(Tail(ready), Head(ready))
    /\ tasks' = [tasks EXCEPT ![Head(ready).task_id].status = "running",
                              ![Head(ready).task_id].message = <<"Starting scraper...">>]
    /\ pc' = "running"
    /\ response' = NoResponse
    /\ UNCHANGED <<pure, daily_stats, local, exports, clock, history>>

\* _run_scraper, first statements: the scheduled run gets the loop and marks
\* its task running.
run_scraper_begin ==
    /\ active = NoTask
    /\ ready # <<>>
    /\ frame' = Head(ready)
    /\ ready' = Tail(ready)
    /\ tasks' = [tasks EXCEPT ![Head(ready).task_id].status = "running",
                              ![Head(ready).task_id].message = <<"Starting scraper...">>]
    /\ pc' = "running"
    /\ response' = NoResponse
    /\ UNCHANGED <<pure, daily_stats, local, exports, clock, history>>

\* The except clause without the completed_at stamp (mutant)
failed_task_unstamped(task, e, now) ==
    [task EXCEPT !.status = "failed", !.message = <<"Error: ", e>>]

\* The except clause of _run_scraper.
failed_task(task, e, now) ==
    [task EXCEPT !.status = "failed", !.message = <<"Error: ", e>>, !.completed_at = now]

\* The except clause falling through to the statements after the call
\* (mutant)
Fail_through(e, now) ==
    /\ tasks' = [tasks EXCEPT ![active] = failed_task(@, e, now)]
    /\ clock' = now + 1
    /\ pc' = "p100"
    /\ UNCHANGED <<frame, local>>

\* The run ends in the except clause, which reads the time `now`.
Fail(e, now) ==
    /\ tasks' = [tasks EXCEPT ![active] = failed_task(@, e, now)]
    /\ clock' = now + 1
    /\ frame' = NoFrame
    /\ pc' = "idle"
    /\ ResetLocal

\* _update_daily_stats overwriting the entry's total instead of adding to it
\* (mutant)
update_daily_stats_overwrite(stats, scraper_name, records, now) ==
    IF \E i \in DOMAIN stats : stats[i].scraper_name = scraper_name
    THEN LET i == CHOOSE j \in DOMAIN stats : stats[j].scraper_name = scraper_name
         IN  [stats EXCEPT ![i].total_records = records,
                           ![i].runs = @ + 1,
                           ![i].last_run = now]
    ELSE Append(stats, [scraper_name |-> scraper_name,
                        display_name |-> scraper_display_names(scraper_name),
                        total_records |-> records, runs |-> 1, last_run |-> now])

\* _update_daily_stats appending an entry for every run (mutant)
update_daily_stats_append(stats, scraper_name, records, now) ==
    Append(stats, [scraper_name |-> scraper_name,
                   display_name |-> scraper_display_names(scraper_name),
                   total_records |-> records, runs |-> 1, last_run |-> now])

\* _update_daily_stats(scraper_name, records)
update_daily_stats(stats, scraper_name, records, now) ==
    IF \E i \in DOMAIN stats : stats[i].scraper_name = scraper_name
    THEN LET i == CHOOSE j \in DOMAIN stats :
                    /\ stats[j].scraper_name = scraper_name
                    /\ \A k \in 1..(j - 1) : stats[k].scraper_name # scraper_name
         IN  [stats EXCEPT ![i].total_records = @ + records,
                           ![i].runs = @ + 1,
                           ![i].last_run = now]
    ELSE Append(stats, [scraper_name |-> scraper_name,
                        display_name |-> scraper_display_names(scraper_name),
                        total_records |-> records, runs |-> 1, last_run |-> now])

\* "Update task with results" treating an empty result as a failure (mutant)
completed_task_zero_fails(task, result, now) ==
    IF result.total_records = 0
    THEN [task EXCEPT !.status = "failed",
                      !.message = <<"Error: ", "no results">>,
                      !.completed_at = now]
    ELSE [task EXCEPT !.status = "completed",
                      !.progress = 100,
                      !.message = <<"Completed! Found ", ToString(result.total_records),
                                    " businesses">>,
                      !.completed_at = now,
                      !.filename = result.filename,
                      !.total_records = result.total_records]

\* "Update task with results" without the total_records line (mutant)
completed_task_no_total(task, result, now) ==
    [task EXCEPT !.status = "completed",
                 !.progress = 100,
                 !.message = <<"Completed! Found ", ToString(result.total_records),
                               " businesses">>,
                 !.completed_at = now,
                 !.filename = result.filename]

\* The completion write without the completed_at stamp (mutant)
completed_task_unstamped(task, result, now) ==
    [task EXCEPT !.status = "completed",
                 !.progress = 100,
                 !.message = <<"Completed! Found ", ToString(result.total_records),
                               " businesses">>,
                 !.filename = result.filename,
                 !.total_records = result.total_records]

\* "Update task with results" of _run_scraper, from the returned dict.
completed_task(task, result, now) ==
    [task EXCEPT !.status = "completed",
                 !.progress = 100,
                 !.message = <<"Completed! Found ", ToString(result.total_records),
                               " businesses">>,
                 !.completed_at = now,
                 !.filename = result.filename,
                 !.total_records = result.total_records]

\* scrape_googlemaps returns `result` and _run_scraper completes the task and
\* updates the statistics; nothing suspends in between.
Complete(result) ==
    /\ tasks' = [tasks EXCEPT ![active] = completed_task(@, result, Now)]
    /\ daily_stats' = update_daily_stats(daily_stats, frame.scraper_name,
                                         result.total_records, Now + 1)
    /\ clock' = clock + 2
    /\ returned' = [returned EXCEPT ![active] = <<result>>]
    /\ frame' = NoFrame
    /\ pc' = "idle"
    /\ ResetLocal

\* ------------------------------------------------------------ googlemaps.py
\* The dict of the two early returns: Chrome missing, or an exception caught.
FailedResult(task_id, e) ==
    [filename |-> <<"failed_", ToString(task_id)>>, total_records |-> 0,
     csv_path |-> None, excel_path |-> None, status |-> "failed", error |-> e]

\* The dict of the final return.
FinalResult(name, found, csv_path, excel_path) ==
    [filename |-> name, total_records |-> Len(found),
     csv_path |-> csv_path, excel_path |-> excel_path,
     status |-> IF Len(found) > 0 THEN "completed" ELSE "completed_no_results",
     error |-> ""]

\* search_query of perform_enhanced_search
SearchQuery(params) ==
    <<IF params.search_term # "" THEN params.search_term ELSE "restaurants",
      " in ",
      IF params.location # "" THEN params.location ELSE "Dubai, UAE">>

Min(a, b) == IF a < b THEN a ELSE b

\* progress_val with the share of the listings taken of 100 instead of 25
\* (mutant)
ProgressVal_percent(i, n) == 60 + (i * 100) \div n

\* progress_val of the loop of extract_google_maps_results_enhanced
ProgressVal(i, n) == 60 + (i * 25) \div n

\* The dedup test of the loop with the seen-key test dropped (mutant)
offer_no_check(found, seen, business_data) ==
    [results |-> Append(found, business_data),
     seen |-> seen \cup {business_key_of(business_data)}]

\* The dedup test of the loop with a duplicate replacing the accepted record
\* (mutant)
offer_keep_last(found, seen, business_data) ==
    LET business_key == business_key_of(business_data)
        IsOther(r) == business_key_of(r) # business_key
    IN  [results |-> Append(SelectSeq(found, IsOther), business_data),
         seen |-> seen \cup {business_key}]

\* The body of the loop for one named record: accept it unless its key was
\* seen.
offer(found, seen, business_data) ==
    LET business_key == business_key_of(business_data)
    IN  IF business_key \notin seen
        THEN [results |-> Append(found, business_data), seen |-> seen \cup {business_key}]
        ELSE [results |-> found, seen |-> seen]

\* `if business_data and business_data.business_name` of the loop
IsNamed(data) == data # None /\ data[1].business_name \notin {Absent, <<>>}

\* The loop body with the name test dropped from its guard (mutant): the key
\* of an empty name is computed and used, that of an absent one raises into
\* the loop's except clause.
collect_name_unchecked(found, seen, data) ==
    IF data = None
    THEN [results |-> found, seen |-> seen, keyed |-> FALSE]
    ELSE IF data[1].business_name = Absent
    THEN [results |-> found, seen |-> seen, keyed |-> TRUE]
    ELSE LET business_key == create_business_key(data[1])
         IN  IF business_key \notin seen
             THEN [results |-> Append(found, data[1]),
                   seen |-> seen \cup {business_key}, keyed |-> TRUE]
             ELSE [results |-> found, seen |-> seen, keyed |-> TRUE]

\* The loop body after the extraction: a record that is None or has no name is
\* passed over, create_business_key is not called for it; a named one is
\* offered.
collect(found, seen, data) ==
    IF IsNamed(data)
    THEN LET o == offer(found, seen, data[1])
         IN  [results |-> o.results, seen |-> o.seen, keyed |-> TRUE]
    ELSE [results |-> found, seen |-> seen, keyed |-> FALSE]

\* _run_scraper builds the request and calls the scraper, which reports 10.
\* A params dict that ScrapeRequest rejects raises inside the try.
run_scraper_invoke ==
    /\ pc = "running"
    /\ \/ /\ ~RequestIsValid(frame.params)
          /\ Fail(ValidationError, Now)
          /\ UNCHANGED <<pure, daily_stats, ready, exports, response, history>>
       \/ /\ RequestIsValid(frame.params)
          /\ invoked' = [invoked EXCEPT ![active] = @ + 1]
          /\ Report(10, <<"Setting up Google Maps scraper...">>)
          /\ pc' = "p10"
          /\ UNCHANGED <<pure, daily_stats, ready, frame, local, exports, clock, response,
                         returned, raised, exported>>

\* The Chrome binary is looked up.
scrape_find_chrome ==
    /\ pc = "p10"
    /\ \/ /\ Report(15, <<"Initializing browser...">>)
          /\ pc' = "p15"
       \/ /\ Report(0, <<"Error: Chrome not available">>)
          /\ pc' = "p0"
    /\ UNCHANGED <<pure, daily_stats, ready, frame, local, exports, clock, response, history>>

\* The early return of the missing Chrome binary.
scrape_return_no_chrome ==
    /\ pc = "p0"
    /\ Complete(FailedResult(active, "Chrome binary not found"))
    /\ UNCHANGED <<pure, ready, exports, response, raised, invoked, exported>>

\* The driver is created; an exception goes to the except clause of the
\* scraper, which reports 80.
scrape_init_driver ==
    /\ pc = "p15"
    /\ \/ /\ Report(25, <<"Loading Google Maps...">>)
          /\ pc' = "p25"
          /\ UNCHANGED error
       \/ /\ Report(80, <<"Error: ", DriverError>>)
          /\ pc' = "p80"
          /\ error' = DriverError
    /\ UNCHANGED <<pure, daily_stats, ready, frame, results, seen_businesses, n_elements, idx,
                   filename, offered, exports, clock, response, history>>

\* Google Maps is loaded and the page title tested.
scrape_load_maps ==
    /\ pc = "p25"
    /\ \/ /\ Report(35, <<"Performing search...">>)
          /\ pc' = "p35"
       \/ /\ Report(30, <<"Error: Could not access Google Maps">>)
          /\ pc' = "p30"
    /\ UNCHANGED <<pure, daily_stats, ready, frame, local, exports, clock, response, history>>

\* raise Exception("Google Maps access blocked"), caught by the scraper.
scrape_blocked ==
    /\ pc = "p30"
    /\ Report(80, <<"Error: ", AccessBlocked>>)
    /\ pc' = "p80"
    /\ error' = AccessBlocked
    /\ UNCHANGED <<pure, daily_stats, ready, frame, results, seen_businesses, n_elements, idx,
                   filename, offered, exports, clock, response, history>>

\* The return of the except clause of the scraper.
scrape_return_failed ==
    /\ pc = "p80"
    /\ Complete(FailedResult(active, error))
    /\ UNCHANGED <<pure, ready, exports, response, raised, invoked, exported>>

\* perform_enhanced_search starts.
search_begin ==
    /\ pc = "p35"
    /\ Report(40, <<"Finding search box...">>)
    /\ pc' = "p40"
    /\ UNCHANGED <<pure, daily_stats, ready, frame, local, exports, clock, response, history>>

\* The search box is looked up; without it the search returns False.
search_find_box ==
    /\ pc = "p40"
    /\ \/ /\ Report(42, <<"Searching: ">> \o SearchQuery(frame.params))
          /\ pc' = "p42"
       \/ /\ Report(45, <<"Search failed - no results found">>)
          /\ pc' = "search_failed"
    /\ UNCHANGED <<pure, daily_stats, ready, frame, local, exports, clock, response, history>>

\* The query is typed; an exception makes the search return False.
search_send_keys ==
    /\ pc = "p42"
    /\ \/ /\ Report(45, <<"Waiting for results...">>)
          /\ pc' = "p45"
       \/ /\ Report(45, <<"Search failed - no results found">>)
          /\ pc' = "search_failed"
    /\ UNCHANGED <<pure, daily_stats, ready, frame, local, exports, clock, response, history>>

\* The result indicators are looked up.
search_wait_results ==
    /\ pc = "p45"
    /\ \/ /\ Report(50, <<"Extracting business data...">>)
          /\ pc' = "p50"
       \/ /\ Report(45, <<"Search failed - no results found">>)
          /\ pc' = "search_failed"
    /\ UNCHANGED <<pure, daily_stats, ready, frame, local, exports, clock, response, history>>

\* extract_google_maps_results_enhanced starts.
extract_begin ==
    /\ pc = "p50"
    /\ Report(55, <<"Loading business listings...">>)
    /\ pc' = "p55"
    /\ UNCHANGED <<pure, daily_stats, ready, frame, local, exports, clock, response, history>>

\* The listing elements are collected and filtered; with none the extraction
\* returns the empty list and the scraper goes on to the export.
extract_find_elements ==
    /\ pc = "p55"
    /\ \E n \in 0..MaxElements :
          \/ /\ n = 0
             /\ Report(90, <<"Exporting results...">>)
             /\ pc' = "p90"
             /\ UNCHANGED <<n_elements, idx>>
          \/ /\ n > 0
             /\ n_elements' = n
             /\ idx' = 0
             /\ Report(ProgressVal(0, n),
                       <<"Processing business ", ToString(1), "/", ToString(n)>>)
             /\ pc' = "business"
    /\ UNCHANGED <<pure, daily_stats, ready, frame, results, seen_businesses, error, filename,
                   offered, exports, clock, response, history>>

\* One round of the loop: the listing's data is extracted (None when it has no
\* name or the extraction raises) and offered, then the next round reports its
\* progress or, after the last one, the extraction returns (its locals i and
\* unique_elements are gone) and the scraper reports the export.
extract_business ==
    /\ pc = "business"
    /\ \E data \in Extracted :
          /\ offered' = IF IsNamed(data) THEN Append(offered, data) ELSE offered
          /\ LET o == collect(results, seen_businesses, data)
             IN  results' = o.results /\ seen_businesses' = o.seen
    /\ \/ /\ idx + 1 < Min(n_elements, ElementLimit)
          /\ idx' = idx + 1
          /\ Report(ProgressVal(idx + 1, n_elements),
                    <<"Processing business ", ToString(idx + 2), "/", ToString(n_elements)>>)
          /\ pc' = "business"
          /\ UNCHANGED n_elements
       \/ /\ idx + 1 >= Min(n_elements, ElementLimit)
          /\ Report(90, <<"Exporting results...">>)
          /\ pc' = "p90"
          /\ idx' = 0
          /\ n_elements' = 0
    /\ UNCHANGED <<pure, daily_stats, ready, frame, error, filename,
                   exports, clock, response, history>>

\* After a failed search the scraper goes on to the export.
scrape_after_failed_search ==
    /\ pc = "search_failed"
    /\ Report(90, <<"Exporting results...">>)
    /\ pc' = "p90"
    /\ UNCHANGED <<pure, daily_stats, ready, frame, local, exports, clock, response, history>>

\* export_to_csv and export_to_excel path names
CsvPath(name) == <<"exports/">> \o name \o <<".csv">>
ExcelPath(name) == <<"exports/">> \o name \o <<".xlsx">>

\* The export: both files are written when there are results; either write
\* can raise, which leaves scrape_googlemaps and reaches the except clause of
\* _run_scraper.
scrape_export ==
    /\ pc = "p90"
    /\ LET name == <<"googlemaps_uae_", ToString(Now)>>
       IN  \/ /\ results = <<>>
              /\ filename' = name
              /\ Report(100, <<"Completed! Found ", ToString(0), " businesses">>)
              /\ pc' = "p100"
              /\ clock' = clock + 1
              /\ UNCHANGED <<frame, results, seen_businesses, n_elements, idx, error,
                             offered, exports, raised, exported>>
           \/ /\ results # <<>>
              /\ filename' = name
              /\ exports' = exports \cup {CsvPath(name), ExcelPath(name)}
              /\ Report(100, <<"Completed! Found ", ToString(Len(results)), " businesses">>)
              /\ pc' = "p100"
              /\ clock' = clock + 1
              /\ exported' = [exported EXCEPT ![active] = @ + 1]
              /\ UNCHANGED <<frame, results, seen_businesses, n_elements, idx, error,
                             offered, raised>>
           \/ /\ results # <<>>
              /\ exports' \in {exports, exports \cup {CsvPath(name)}}
              /\ raised' = [raised EXCEPT ![active] = ExportError]
              /\ exported' = [exported EXCEPT ![active] = @ + 1]
              /\ Fail(ExportError, Now + 1)
    /\ UNCHANGED <<pure, daily_stats, ready, response, returned, invoked>>

\* The final return of the scraper.
scrape_return ==
    /\ pc = "p100"
    /\ Complete(FinalResult(filename, results,
                            IF results # <<>> THEN CsvPath(filename) ELSE None,
                            IF results # <<>> THEN ExcelPath(filename) ELSE None))
    /\ UNCHANGED <<pure, ready, exports, response, raised, invoked, exported>>

\* get_task_status(task_id): the task as a dict, or None for an unknown id
get_task_status(task_id) ==
    IF task_id \in DOMAIN tasks THEN <<tasks[task_id]>> ELSE None

\* get_all_tasks(): the tasks as dicts, in the order of their insertion
get_all_tasks == [i \in 1..Len(tasks) |-> tasks[i]]

\* get_today_summary adding the two totals instead of taking the higher
\* (mutant)
get_today_summary_added ==
    LET Completed == {t \in DOMAIN tasks : tasks[t].status = "completed"}
        RECURSIVE SumTasks(_)
        SumTasks(S) == IF S = {} THEN 0
                       ELSE LET t == CHOOSE x \in S : TRUE
                            IN  tasks[t].total_records + SumTasks(S \ {t})
        RECURSIVE SumStats(_)
        SumStats(i) == IF i = 0 THEN 0 ELSE daily_stats[i].total_records + SumStats(i - 1)
    IN  [total_tasks |-> Len(tasks),
         completed_tasks |-> Cardinality(Completed),
         running_tasks |-> Cardinality({t \in DOMAIN tasks : tasks[t].status = "running"}),
         failed_tasks |-> Cardinality({t \in DOMAIN tasks : tasks[t].status = "failed"}),
         total_records |-> SumTasks(Completed) + SumStats(Len(daily_stats)),
         stats |-> daily_stats]

\* get_today_summary counting as running every task that has not ended
\* (mutant)
get_today_summary_unended_running ==
    LET Completed == {t \in DOMAIN tasks : tasks[t].status = "completed"}
        RECURSIVE SumTasks(_)
        SumTasks(S) == IF S = {} THEN 0
                       ELSE LET t == CHOOSE x \in S : TRUE
                            IN  tasks[t].total_records + SumTasks(S \ {t})
        RECURSIVE SumStats(_)
        SumStats(i) == IF i = 0 THEN 0 ELSE daily_stats[i].total_records + SumStats(i - 1)
        total_records == SumTasks(Completed)
        daily_records == SumStats(Len(daily_stats))
    IN  [total_tasks |-> Len(tasks),
         completed_tasks |-> Cardinality(Completed),
         running_tasks |-> Cardinality({t \in DOMAIN tasks : tasks[t].status \notin Terminal}),
         failed_tasks |-> Cardinality({t \in DOMAIN tasks : tasks[t].status = "failed"}),
         total_records |-> IF total_records > daily_records THEN total_records
                           ELSE daily_records,
         stats |-> daily_stats]

\* get_today_summary()
get_today_summary ==
    LET Completed == {t \in DOMAIN tasks : tasks[t].status = "completed"}
        RECURSIVE SumTasks(_)
        SumTasks(S) == IF S = {} THEN 0
                       ELSE LET t == CHOOSE x \in S : TRUE
                            IN  tasks[t].total_records + SumTasks(S \ {t})
        RECURSIVE SumStats(_)
        SumStats(i) == IF i = 0 THEN 0 ELSE daily_stats[i].total_records + SumStats(i - 1)
        total_records == SumTasks(Completed)
        daily_records == SumStats(Len(daily_stats))
    IN  [total_tasks |-> Len(tasks),
         completed_tasks |-> Cardinality(Completed),
         running_tasks |-> Cardinality({t \in DOMAIN tasks : tasks[t].status = "running"}),
         failed_tasks |-> Cardinality({t \in DOMAIN tasks : tasks[t].status = "failed"}),
         total_records |-> IF total_records > daily_records THEN total_records
                           ELSE daily_records,
         stats |-> daily_stats]

Next ==
    \/ \E scraper_name \in ScraperNames, params \in ParamsSet :
          start_scraping(scraper_name, params)
    \/ run_scraper_begin
    \/ run_scraper_invoke
    \/ scrape_find_chrome
    \/ scrape_return_no_chrome
    \/ scrape_init_driver
    \/ scrape_load_maps
    \/ scrape_blocked
    \/ scrape_return_failed
    \/ search_begin
    \/ search_find_box
    \/ search_send_keys
    \/ search_wait_results
    \/ extract_begin
    \/ extract_find_elements
    \/ extract_business
    \/ scrape_after_failed_search
    \/ scrape_export
    \/ scrape_return

Spec == Init /\ [][Next]_vars

\* The steps of the scheduled runs: the event loop runs a scheduled coroutine
\* when it is free, and a run that has the loop goes on to its next statement
\* (every browser call and sleep returns or raises).
Run ==
    \/ run_scraper_begin
    \/ run_scraper_invoke
    \/ scrape_find_chrome
    \/ scrape_return_no_chrome
    \/ scrape_init_driver
    \/ scrape_load_maps
    \/ scrape_blocked
    \/ scrape_return_failed
    \/ search_begin
    \/ search_find_box
    \/ search_send_keys
    \/ search_wait_results
    \/ extract_begin
    \/ extract_find_elements
    \/ extract_business
    \/ scrape_after_failed_search
    \/ scrape_export
    \/ scrape_return

\* The program under a fair event loop.
FairSpec == Spec /\ WF_vars(Run)

\* ------------------------------------------- create_business_key on its own
\* Business names over a lower-case letter, its upper-case form, the space and
\* a punctuation character, and the two spellings of the listing.
NameChars == {"a", "A", " ", "-"}
Names == UNION {[1..n -> NameChars] : n \in 1..MaxNameLen}
Mobiles == {None, Phone11}

\* Names at the edges: absent (None), empty, blank, one letter, a name that
\* ends in '_' and eight digits, and a listing's name.
Phone8 == <<"1","2","3","4","5","6","7","8">>
EdgeNames == {Absent, <<>>, <<" ">>, <<"a">>, <<"a", "_">> \o Phone8, AlNoorCafe}
\* Mobiles around the threshold, bare and formatted: '123-4567' has eight
\* characters and seven digits, '+1234 5678' the digits of Phone8.
Phone7Formatted == <<"1","2","3","-","4","5","6","7">>
Phone8Formatted == <<"+","1","2","3","4"," ","5","6","7","8">>
PhoneInputs == {<<>>, Phone7, Phone8, Phone11, Phone7Formatted, Phone8Formatted}

\* The arguments of create_business_key: two records to be compared by their
\* keys, either two short names with one mobile or two edge names with a
\* mobile each.
KeyInit ==
    \/ \E m \in Mobiles :
          \/ \E n1 \in Names, n2 \in Names :
                arg = [fn |-> "create_business_key",
                       a |-> BusinessData(n1, m), b |-> BusinessData(n2, m)]
          \/ arg = [fn |-> "create_business_key",
                    a |-> BusinessData(AlNoorCafe, m), b |-> BusinessData(alNOORcafe, m)]
    \/ \E n1 \in EdgeNames, n2 \in EdgeNames, m1 \in PhoneInputs, m2 \in PhoneInputs :
          arg = [fn |-> "create_business_key",
                 a |-> BusinessData(n1, m1), b |-> BusinessData(n2, m2)]

\* Records without a name, which the extraction never returns but the loop
\* tests for.
Unnamed == {<<BusinessData(Absent, Phone11)>>, <<BusinessData(<<>>, Phone11)>>,
            <<BusinessData(<<>>, <<>>)>>}
\* Accepted lists the loop can have built: listings with different keys.
Collected ==
    {<<>>} \cup {<<c>> : c \in Candidates}
    \cup {s \in {<<c, d>> : c \in Candidates, d \in Candidates} :
              business_key_of(s[1]) # business_key_of(s[2])}

\* The arguments of the loop body: an accepted list with its keys, and two
\* extraction results to go through one after the other.
CollectInit ==
    \E found \in Collected, d1 \in Extracted \cup Unnamed, d2 \in Extracted \cup Unnamed :
        arg = [fn |-> "collect", results |-> found,
               seen |-> {business_key_of(found[i]) : i \in DOMAIN found},
               queue |-> <<d1, d2>>]

\* The characters of the texts handed to clean_text: a letter and whitespace
TextChars == {"a", " ", "\n", "\t", "\r"}
\* The characters of the texts handed to clean_phone: a digit, the formatting
\* characters and a whitespace character that is no space
PhoneChars == {"1", "(", ")", "-", " ", "+", "\t"}
\* '+971 (4) 123-4567'
FormattedPhone == <<"+","9","7","1"," ","(","4",")"," ","1","2","3","-","4","5","6","7">>

\* The argument of clean_text or of clean_phone: None, '' or a short text.
UtilsInit ==
    \/ \E text \in {Absent} \cup UNION {[1..n -> TextChars] : n \in 0..MaxTextLen} :
          arg = [fn |-> "clean_text", text |-> text]
    \/ \E phone \in {Absent, FormattedPhone}
                      \cup UNION {[1..n -> PhoneChars] : n \in 0..MaxTextLen} :
          arg = [fn |-> "clean_phone", text |-> phone]

\* The records a task of the store can be: as created, running with a
\* progress reported, completed, and failed.
StoredTasks(task_id) ==
    LET pending == NewTask(task_id, "googlemaps", 0)
        running == [pending EXCEPT !.status = "running", !.progress = 60,
                                   !.message = <<"Extracting business data...">>]
    IN  {pending, running,
         completed_task(running, [filename |-> <<"googlemaps_uae_", "1">>,
                                  total_records |-> 2], 1),
         failed_task(running, "Exception", 1)}
\* self.tasks with up to MaxTasks tasks
Stores ==
    UNION {{ts \in [1..n -> UNION {StoredTasks(t) : t \in 1..n}] :
               \A t \in 1..n : ts[t].task_id = t} : n \in 0..MaxTasks}
\* The progress values and messages a callback is given
ProgressInputs == {0, 10, 60, 100}
MessageInputs == {<<"Starting Google Maps scraper...">>, <<"Extracting business data...">>}

\* The store and the arguments of a progress callback; the id after the last
\* stored one is an id not in the store.
CallbackInit ==
    \E ts \in Stores, tid \in 1..(MaxTasks + 1),
       progress \in ProgressInputs, message \in MessageInputs :
        arg = [fn |-> "progress_callback", tasks |-> ts, tid |-> tid,
               progress |-> progress, message |-> message]

HelperInit ==
    /\ InitProgram
    /\ KeyInit \/ CollectInit \/ UtilsInit \/ CallbackInit
    /\ ret = NoRet

\* A call of create_business_key: None has no lower(), so an absent name
\* raises AttributeError; every str name, the empty one too, gets a key.
create_business_key_outcome(business_data) ==
    IF business_data.business_name = Absent
    THEN [raised |-> "AttributeError", value |-> None]
    ELSE [raised |-> "", value |-> create_business_key(business_data)]

\* create_business_key is applied to both records.
call_create_business_key ==
    /\ arg.fn = "create_business_key"
    /\ ret = NoRet
    /\ ret' = [fn |-> "create_business_key",
               a |-> create_business_key_outcome(arg.a),
               b |-> create_business_key_outcome(arg.b)]
    /\ UNCHANGED <<arg, program>>

\* The loop body is applied to the next extraction result of the queue.
call_collect ==
    /\ arg.fn = "collect"
    /\ LET done == IF ret.fn = "none" THEN 0 ELSE ret.done
           found == IF ret.fn = "none" THEN arg.results ELSE ret.results
           seen == IF ret.fn = "none" THEN arg.seen ELSE ret.seen
       IN  /\ done < Len(arg.queue)
           /\ LET o == collect(found, seen, arg.queue[done + 1])
              IN  ret' = [fn |-> "collect", results |-> o.results, seen |-> o.seen,
                         keyed |-> o.keyed, done |-> done + 1,
                         before |-> [results |-> found, seen |-> seen]]
    /\ UNCHANGED <<arg, program>>

\* clean_text is called on the argument, and once more on what it returned.
call_clean_text ==
    /\ arg.fn = "clean_text"
    /\ IF ret.fn = "none" THEN TRUE ELSE ret.calls < 2
    /\ LET text == IF ret.fn = "none" THEN arg.text ELSE ret.value
       IN  ret' = [fn |-> "clean_text", of |-> text, value |-> clean_text(text),
                   calls |-> IF ret.fn = "none" THEN 1 ELSE 2]
    /\ UNCHANGED <<arg, program>>

\* clean_phone is called on the argument, and once more on what it returned.
call_clean_phone ==
    /\ arg.fn = "clean_phone"
    /\ IF ret.fn = "none" THEN TRUE ELSE ret.calls < 2
    /\ LET phone == IF ret.fn = "none" THEN arg.text ELSE ret.value
       IN  ret' = [fn |-> "clean_phone", of |-> phone, value |-> clean_phone(phone),
                   calls |-> IF ret.fn = "none" THEN 1 ELSE 2]
    /\ UNCHANGED <<arg, program>>

\* A call of progress_callback; neither branch of it can raise.
call_progress_callback ==
    /\ arg.fn = "progress_callback"
    /\ ret.fn = "none"
    /\ ret' = [fn |-> "progress_callback", raised |-> "",
               tasks |-> progress_callback(arg.tasks, arg.tid, arg.progress, arg.message)]
    /\ UNCHANGED <<arg, program>>

HelperNext ==
    \/ call_progress_callback
    \/ call_create_business_key
    \/ call_collect
    \/ call_clean_text
    \/ call_clean_phone

\* The helper functions applied to arguments drawn from bounded sets.
HelperSpec == HelperInit /\ [][HelperNext]_vars

\* ================================================================== claims

\* C1: terminal states are absorbing.  No step (of the task's own run, of a
\* progress callback, of the statistics, of a handler or of another task's
\* run) changes the status of a task that is completed or failed.
C1_TerminalAbsorbing ==
    [][\A t \in DOMAIN tasks :
          tasks[t].status \in Terminal => tasks'[t].status = tasks[t].status]_vars

\* A failed task and a completed task are in the store while nothing runs.
C1_Witness ==
    /\ Len(tasks) = 2
    /\ tasks[1].status = "failed"
    /\ tasks[2].status = "completed"
    /\ tasks[1].completed_at < tasks[2].completed_at

\* C2: a task whose scraper function raised is failed, with completed_at set,
\* the error text in its message, no filename and total_records 0; and the
\* step in which the scraper function raises leaves total_records as it was.
C2_RaiseEndsFailed ==
    /\ [](\A t \in DOMAIN tasks :
            raised[t] # "" =>
               /\ tasks[t].status = "failed"
               /\ tasks[t].completed_at # NoTime
               /\ tasks[t].message = <<"Error: ", raised[t]>>
               /\ tasks[t].filename = None
               /\ tasks[t].total_records = 0)
    /\ [][\A t \in DOMAIN tasks :
            raised'[t] # raised[t] =>
               tasks'[t].total_records = tasks[t].total_records]_vars

\* The export of a run with results raised: the task is failed at progress 90.
C2_Witness ==
    \E t \in DOMAIN tasks :
       /\ raised[t] = ExportError
       /\ tasks[t].status = "failed"
       /\ tasks[t].progress = 90

\* C3 (as claimed): a run whose extraction failed outright (the scraper
\* returned its failure dict: Chrome missing, Google Maps not loading, an
\* exception in the browser set-up) ends failed.
C3_OutrightFailureEndsFailed ==
    \A t \in DOMAIN tasks :
       (returned[t] # None /\ returned[t][1].status = "failed") =>
          tasks[t].status = "failed"

\* Sum of total_records over the completed tasks with id <= k.
RECURSIVE CompletedRecords(_)
CompletedRecords(k) ==
    IF k = 0 THEN 0
    ELSE (IF tasks[k].status = "completed" THEN tasks[k].total_records ELSE 0)
         + CompletedRecords(k - 1)

\* C4: the summary's total_records is the sum of total_records over the tasks
\* that are completed now.
C4_SummaryTotal ==
    get_today_summary.total_records = CompletedRecords(Len(tasks))

\* Two completed tasks with records and different totals.
C4_Witness ==
    /\ Len(tasks) = 2
    /\ tasks[1].status = "completed" /\ tasks[1].total_records = 2
    /\ tasks[2].status = "completed" /\ tasks[2].total_records = 1

KeysOf(found) == {business_key_of(found[i]) : i \in DOMAIN found}

\* C5: the accepted list holds no two records with the same key, and the seen
\* set is the set of keys of the accepted records.
C5_DistinctKeys ==
    /\ \A i, j \in DOMAIN results :
          i # j => business_key_of(results[i]) # business_key_of(results[j])
    /\ seen_businesses = KeysOf(results)

\* Three records were offered, one of them a duplicate: two are accepted.
C5_Witness ==
    /\ Len(offered) = 3
    /\ \A i \in DOMAIN offered : offered[i] # None
    /\ Len(results) = 2

\* Positions of `given` that hold a named record whose key no earlier position
\* holds.
FirstPositions(given) ==
    {i \in DOMAIN given :
        /\ given[i] # None
        /\ \A j \in 1..(i - 1) :
              given[j] # None =>
                 business_key_of(given[j][1]) # business_key_of(given[i][1])}

\* The k-th smallest element of a set of positions.
Nth(S, k) == CHOOSE i \in S : Cardinality({j \in S : j < i}) = k - 1

\* C6: during and after the loop the accepted list is the subsequence of the
\* first occurrences of each key among the offered records, in offer order.
C6_FirstOccurrences ==
    pc \in {"business", "p90"} =>
       /\ Len(results) = Cardinality(FirstPositions(offered))
       /\ \A k \in DOMAIN results :
             results[k] = offered[Nth(FirstPositions(offered), k)][1]

\* A record, then one with another key, then a different record with the first
\* key: the first two are the accepted list.
C6_Witness ==
    /\ pc = "p90"
    /\ Len(offered) = 3
    /\ \A i \in DOMAIN offered : offered[i] # None
    /\ business_key_of(offered[1][1]) = business_key_of(offered[3][1])
    /\ offered[1] # offered[3]
    /\ business_key_of(offered[1][1]) # business_key_of(offered[2][1])
    /\ results = <<offered[1][1], offered[2][1]>>

\* C7: a start_scraping call that raises leaves the task store, the scheduled
\* runs, the statistics and the running frame as they were, and no task or
\* scheduled run ever names an unregistered scraper.
C7_UnknownScraperNoEffect ==
    /\ [](/\ \A t \in DOMAIN tasks : tasks[t].scraper_name \in scrapers
          /\ \A i \in DOMAIN ready : ready[i].scraper_name \in scrapers)
    /\ [][(response' # response /\ response'.raised # "") =>
             UNCHANGED <<tasks, daily_stats, ready, frame, pc, local, exports,
                         clock, history>>]_vars

\* The call raised while a task is in the store.
C7_Witness ==
    /\ response.raised # ""
    /\ Len(tasks) = 1
    /\ Len(ready) = 1

\* C8: in the state start_scraping returns a task id in, that task is in the
\* store, pending at progress 0, its run is scheduled and has taken no step.
C8_ReturnsBeforeRun ==
    [][(response'.task_id # response.task_id /\ response'.task_id # NoTask) =>
          LET t == response'.task_id
          IN  /\ t \in DOMAIN tasks'
              /\ t \notin DOMAIN tasks
              /\ tasks'[t].status = "pending"
              /\ tasks'[t].progress = 0
              /\ invoked'[t] = 0
              /\ active' # t
              /\ \E i \in DOMAIN ready' : ready'[i].task_id = t]_vars

\* The second task was just returned, pending, after the first one ended.
C8_Witness ==
    /\ response.task_id = 2
    /\ tasks[2].status = "pending"
    /\ tasks[1].status \in Terminal
    /\ ready # <<>>

\* C9: a task enters the store pending, its status moves only from pending to
\* running and from running to completed or failed, the run that holds the
\* loop belongs to a running task, and the scraper is invoked only for a
\* running task.
C9_StatusHistory ==
    /\ [](active # NoTask => tasks[active].status = "running")
    /\ [][/\ \A t \in DOMAIN tasks' \ DOMAIN tasks : tasks'[t].status = "pending"
          /\ \A t \in DOMAIN tasks :
                \/ tasks'[t].status = tasks[t].status
                \/ tasks[t].status = "pending" /\ tasks'[t].status = "running"
                \/ tasks[t].status = "running" /\ tasks'[t].status \in Terminal
          /\ \A t \in DOMAIN tasks :
                invoked'[t] # invoked[t] =>
                   tasks[t].status = "running" /\ tasks'[t].status = "running"]_vars

\* One task failed before its scraper was invoked, another completed after it
\* was.
C9_Witness ==
    \E t, u \in DOMAIN tasks :
       /\ tasks[t].status = "failed" /\ invoked[t] = 0
       /\ tasks[u].status = "completed" /\ invoked[u] = 1

\* C10: a run whose extraction found nothing, without the scraper raising,
\* ends completed with total_records 0, progress 100, completed_at set and a
\* filename.
C10_ZeroRecordsCompleted ==
    \A t \in DOMAIN tasks :
       (returned[t] # None /\ returned[t][1].status = "completed_no_results") =>
          /\ tasks[t].status = "completed"
          /\ tasks[t].total_records = 0
          /\ tasks[t].progress = 100
          /\ tasks[t].completed_at # NoTime
          /\ tasks[t].filename # None

\* A run that found nothing has ended.
C10_Witness ==
    \E t \in DOMAIN tasks :
       /\ returned[t] # None
       /\ returned[t][1].status = "completed_no_results"
       /\ returned[t][1].total_records = 0
       /\ tasks[t].status = "completed"
       /\ invoked[t] = 1

\* C11: a run that extracts zero records still performs the export.  For every
\* task whose scraper returned with status 'completed_no_results', the returned
\* dict carries a csv_path and an excel_path that are not None, and both files
\* named by the task's filename are in the export directory.
C11_ZeroRecordsExported ==
    \A t \in DOMAIN tasks :
        (returned[t] # None /\ returned[t][1].status = "completed_no_results") =>
            /\ tasks[t].status = "completed"
            /\ returned[t][1].csv_path # None
            /\ returned[t][1].excel_path # None
            /\ CsvPath(tasks[t].filename) \in exports
            /\ ExcelPath(tasks[t].filename) \in exports

\* C12: a run that suspends during its I/O does not block the others.  While
\* a task is 'running', a request handler can take a step (a submission is
\* accepted or rejected; a status query is a handler like it), and a run that
\* is scheduled can begin, which is what makes two tasks 'running' at once.
C12_OthersStepWhileRunning ==
    \A t \in DOMAIN tasks :
        tasks[t].status = "running" =>
            /\ ENABLED (\E scraper_name \in ScraperNames, params \in ParamsSet :
                            start_scraping(scraper_name, params))
            /\ ready # <<>> => ENABLED run_scraper_begin

\* The task whose run acts in a step: the one that holds the loop, or the one
\* that takes it.
Runner == IF active # NoTask THEN active ELSE active'

\* C13: task isolation.  A step of a task's run changes no field of any other
\* task; it changes the statistics only in the step that completes its own
\* task; and the step in which its exception is caught releases the loop and
\* leaves the scheduled runs of the other tasks in place.
C13_TaskIsolation ==
    [][Runner # NoTask =>
          /\ \A t \in DOMAIN tasks : t # Runner => tasks'[t] = tasks[t]
          /\ DOMAIN tasks' = DOMAIN tasks
          /\ daily_stats' # daily_stats =>
                 tasks[Runner].status = "running" /\ tasks'[Runner].status = "completed"
          /\ (tasks[Runner].status # "failed" /\ tasks'[Runner].status = "failed") =>
                 /\ active' = NoTask
                 /\ ready' = ready
                 /\ \A t \in DOMAIN tasks :
                        t # Runner => returned'[t] = returned[t] /\ raised'[t] = raised[t]]_vars

\* The second task's run is in its loop while the first task, failed by its
\* own exception, keeps what its run wrote.
C13_Witness ==
    /\ Len(tasks) = 2
    /\ active = 2
    /\ pc = "business"
    /\ tasks[2].status = "running"
    /\ tasks[1].status = "failed"
    /\ tasks[1].message = <<"Error: ", ExportError>>

\* Sum of total_records over the completed tasks of one scraper with id <= k.
RECURSIVE CompletedRecordsOf(_, _)
CompletedRecordsOf(scraper_name, k) ==
    IF k = 0 THEN 0
    ELSE (IF tasks[k].status = "completed" /\ tasks[k].scraper_name = scraper_name
          THEN tasks[k].total_records ELSE 0)
         + CompletedRecordsOf(scraper_name, k - 1)

\* Sum of total_records over the first k statistics entries of one scraper.
RECURSIVE StatsRecordsOf(_, _)
StatsRecordsOf(scraper_name, k) ==
    IF k = 0 THEN 0
    ELSE (IF daily_stats[k].scraper_name = scraper_name
          THEN daily_stats[k].total_records ELSE 0)
         + StatsRecordsOf(scraper_name, k - 1)

\* C14: in every state the statistics agree with the task store.  For each
\* scraper the total_records of its statistics entries add up to the
\* total_records of its completed tasks; so do the totals over all scrapers,
\* and a scraper outside the registry has neither.
C14_StatsMatchTasks ==
    /\ \A scraper_name \in ScraperNames :
          StatsRecordsOf(scraper_name, Len(daily_stats))
              = CompletedRecordsOf(scraper_name, Len(tasks))
    /\ \A i \in DOMAIN daily_stats : daily_stats[i].scraper_name \in scrapers
    /\ StatsRecordsOf("googlemaps", Len(daily_stats)) = CompletedRecords(Len(tasks))

\* Two completions with records, after the second of which the entry holds the
\* sum, next to nothing else.
C14_Witness ==
    /\ Len(tasks) = 2
    /\ \A t \in DOMAIN tasks : tasks[t].status = "completed" /\ tasks[t].total_records > 0
    /\ tasks[1].total_records # tasks[2].total_records
    /\ Len(daily_stats) = 1
    /\ daily_stats[1].total_records = 3
    /\ active = NoTask

CompletedOf(scraper_name) ==
    {t \in DOMAIN tasks : tasks[t].status = "completed"
                          /\ tasks[t].scraper_name = scraper_name}

\* C15: the statistics hold at most one entry per scraper; a scraper has an
\* entry exactly when one of its tasks has completed, and the entry's runs is
\* the number of its completed tasks.  A step that fails a task leaves the
\* statistics alone, and no step removes an entry or gives it to another
\* scraper.
C15_OneEntryPerScraper ==
    /\ [](/\ \A i, j \in DOMAIN daily_stats :
                i # j => daily_stats[i].scraper_name # daily_stats[j].scraper_name
          /\ \A scraper_name \in ScraperNames :
                (\E i \in DOMAIN daily_stats : daily_stats[i].scraper_name = scraper_name)
                    <=> CompletedOf(scraper_name) # {}
          /\ \A i \in DOMAIN daily_stats :
                daily_stats[i].runs = Cardinality(CompletedOf(daily_stats[i].scraper_name)))
    /\ [][/\ Len(daily_stats') >= Len(daily_stats)
          /\ \A i \in DOMAIN daily_stats :
                daily_stats'[i].scraper_name = daily_stats[i].scraper_name
          /\ (\E t \in DOMAIN tasks :
                tasks[t].status # "failed" /\ tasks'[t].status = "failed")
                 => daily_stats' = daily_stats]_vars

\* The second completion found the entry of the first and updated it; the
\* first run had records, the second none.
C15_Witness ==
    /\ Len(daily_stats) = 1
    /\ daily_stats[1].runs = 2
    /\ daily_stats[1].scraper_name = "googlemaps"
    /\ daily_stats[1].total_records = 2
    /\ tasks[2].total_records = 0

\* The keys of the named candidates among what an extraction yielded.
NamedKeys(yielded) ==
    {business_key_of(yielded[i][1]) : i \in {j \in DOMAIN yielded : yielded[j] # None}}

\* C16: the step that completes a task stores as total_records the number of
\* distinct keys among the named candidates its run's extraction yielded, and
\* a filename; a completed task keeps both, as the scraper returned them.
C16_TotalIsDistinctKeys ==
    /\ [][\A t \in DOMAIN tasks :
            (tasks[t].status # "completed" /\ tasks'[t].status = "completed") =>
                /\ t = active
                /\ tasks'[t].total_records = Cardinality(NamedKeys(offered))
                /\ tasks'[t].filename # None]_vars
    /\ [](\A t \in DOMAIN tasks :
            tasks[t].status = "completed" =>
                /\ tasks[t].filename # None
                /\ returned[t] # None
                /\ tasks[t].total_records = returned[t][1].total_records
                /\ tasks[t].filename = returned[t][1].filename)

\* The run is about to return: its extraction yielded three named candidates,
\* two of them with one key, and two records are left to count.
C16_Witness ==
    /\ pc = "p100"
    /\ Len(offered) = 3
    /\ \A i \in DOMAIN offered : offered[i] # None
    /\ Cardinality(NamedKeys(offered)) = 2
    /\ Len(results) = 2
    /\ tasks[active].message = <<"Completed! Found ", "2", " businesses">>

\* C17: under a fair event loop every submitted task eventually reaches
\* completed or failed.
C17_EveryTaskTerminates ==
    \A t \in 1..MaxTasks :
        (t \in DOMAIN tasks) ~> (t \in DOMAIN tasks /\ tasks[t].status \in Terminal)

\* Every task that could be submitted was, and all have ended: one completed
\* with records, one failed; nothing is scheduled or running.
C17_Witness ==
    /\ Len(tasks) = MaxTasks
    /\ \A t \in DOMAIN tasks : tasks[t].status \in Terminal
    /\ \E t \in DOMAIN tasks : tasks[t].status = "completed" /\ tasks[t].total_records > 0
    /\ \E t \in DOMAIN tasks : tasks[t].status = "failed"
    /\ ready = <<>>
    /\ active = NoTask

\* C18: the stored progress of a task never decreases: no step, on any path
\* of its run or in the completion write, lowers it.
C18_ProgressMonotone ==
    [][\A t \in DOMAIN tasks : tasks'[t].progress >= tasks[t].progress]_vars

\* C19: nothing is retried.  The scraper function is invoked at most once and
\* the export run at most once for a task; a task whose export raised is failed
\* with the error in its message; and once a task is failed no step runs it
\* again: its status stays failed, it is neither scheduled nor given the loop,
\* and no further invocation or export is made for it.
C19_NoRetry ==
    /\ [](\A t \in DOMAIN tasks :
            /\ invoked[t] <= 1
            /\ exported[t] <= 1
            /\ exported[t] <= invoked[t]
            /\ raised[t] = ExportError =>
                   /\ tasks[t].status = "failed"
                   /\ tasks[t].message = <<"Error: ", ExportError>>
                   /\ exported[t] = 1
            /\ tasks[t].status = "failed" =>
                   /\ active # t
                   /\ \A i \in DOMAIN ready : ready[i].task_id # t)
    /\ [][\A t \in DOMAIN tasks :
            tasks[t].status = "failed" =>
                /\ tasks'[t].status = "failed"
                /\ invoked'[t] = invoked[t]
                /\ exported'[t] = exported[t]]_vars

\* The first task's export raised after its extraction had found records; the
\* same request submitted again is a second task with its own id, which ran
\* once and completed.
C19_Witness ==
    /\ Len(tasks) = 2
    /\ raised[1] = ExportError
    /\ tasks[1].status = "failed"
    /\ invoked[1] = 1 /\ exported[1] = 1
    /\ tasks[2].status = "completed"
    /\ tasks[2].total_records > 0
    /\ invoked[2] = 1 /\ exported[2] = 1

\* str with every whitespace character removed
Squeeze(s) == LET NotSpace(c) == ~IsSpace(c) IN SelectSeq(s, NotSpace)
\* The words of a name: what is left of it, in lower case, once punctuation is
\* stripped, runs of whitespace are single spaces and the ends are trimmed.
WordsOf(s) == Strip(CollapseSpaces(DropPunctuation(Lower(s))))

\* Two names differ only in letter case and in the amount of whitespace: they
\* have the same non-whitespace characters up to case, and the whitespace
\* separates the same words (whitespace that is at an end once punctuation is
\* stripped separates nothing).
CaseSpaceVariants(s1, s2) ==
    /\ Squeeze(Lower(s1)) = Squeeze(Lower(s2))
    /\ WordsOf(s1) = WordsOf(s2)

\* C20: create_business_key is insensitive to case and whitespace variation of
\* the name.  Two records with equal mobile whose names differ only in letter
\* case and in the amount of whitespace, whitespace left at the ends after
\* punctuation is stripped included, get equal keys.
C20_KeyIgnoresCaseAndSpace ==
    (/\ ret.fn = "create_business_key"
     /\ arg.a.business_name # Absent
     /\ arg.b.business_name # Absent
     /\ arg.a.mobile = arg.b.mobile
     /\ CaseSpaceVariants(arg.a.business_name, arg.b.business_name))
        => ret.a = ret.b

\* The normalized name: lower case, ends trimmed, punctuation dropped, runs of
\* whitespace single spaces.
NormalizedName(name) == CollapseSpaces(DropPunctuation(Strip(Lower(name))))

\* The key C21 states for a record with a str name.
StatedKey(business_data) ==
    LET digits == OnlyDigits(business_data.mobile)
    IN  IF Len(digits) >= 8
        THEN NormalizedName(business_data.business_name) \o <<"_">> \o digits
        ELSE NormalizedName(business_data.business_name)

\* C21: for a record with a non-empty name the key is '<normalized name>_<digits>'
\* exactly when the mobile holds at least 8 digits and the normalized name alone
\* otherwise (absent, empty, 7 digits or fewer); two mobiles with the same
\* digits give the same key.
C21_KeyShape ==
    ret.fn = "create_business_key" =>
        /\ \A x \in {"a", "b"} :
              arg[x].business_name \notin {Absent, <<>>} =>
                  /\ ret[x].raised = ""
                  /\ ret[x].value = StatedKey(arg[x])
                  /\ (Len(ret[x].value) > Len(NormalizedName(arg[x].business_name)))
                         <=> Len(OnlyDigits(arg[x].mobile)) >= 8
        /\ (/\ arg.a.business_name \notin {Absent, <<>>}
            /\ arg.a.business_name = arg.b.business_name
            /\ OnlyDigits(arg.a.mobile) = OnlyDigits(arg.b.mobile))
               => ret.a = ret.b

\* One name with a mobile of eight characters and seven digits, keyed by the
\* name alone, and with a formatted mobile of eight digits, keyed with them.
C21_Witness ==
    /\ ret.fn = "create_business_key"
    /\ arg.a.business_name = AlNoorCafe
    /\ arg.b.business_name = AlNoorCafe
    /\ arg.a.mobile = Phone7Formatted
    /\ arg.b.mobile = Phone8Formatted
    /\ ret.a.value = NormalizedName(AlNoorCafe)
    /\ ret.b.value = NormalizedName(AlNoorCafe) \o <<"_">> \o Phone8

\* C22: create_business_key fails on a record whose business_name is empty,
\* whether absent or the empty string: it raises and returns no key.
C22_EmptyNameFails ==
    ret.fn = "create_business_key" =>
        \A x \in {"a", "b"} :
            arg[x].business_name \in {Absent, <<>>} =>
                ret[x].raised # "" /\ ret[x].value = None

\* The digits of the mobile that go into the key: all of them when there are 8
\* or more, none otherwise.
IncludedDigits(business_data) ==
    LET digits == OnlyDigits(business_data.mobile)
    IN  IF Len(digits) >= 8 THEN digits ELSE <<>>

\* C30: equal keys mean the same business.  Two records with non-empty names
\* and the same key have the same normalized name and the same included phone
\* digits; a name that ends in '_' and digits does not get the key of another
\* name with that phone.
C30_EqualKeysSameBusiness ==
    (/\ ret.fn = "create_business_key"
     /\ arg.a.business_name \notin {Absent, <<>>}
     /\ arg.b.business_name \notin {Absent, <<>>}
     /\ ret.a.value = ret.b.value)
        => /\ NormalizedName(arg.a.business_name) = NormalizedName(arg.b.business_name)
           /\ IncludedDigits(arg.a) = IncludedDigits(arg.b)

\* C23: offering a record whose business_name is absent or empty is a silent
\* no-op.  The accepted list and the seen keys stay as they were and no key is
\* computed; the record after it is processed as usual, a named one being
\* offered to the accepted list.
C23_UnnamedIsNoOp ==
    ret.fn = "collect" =>
        LET data == arg.queue[ret.done]
        IN  IF data = None \/ data[1].business_name \in {Absent, <<>>}
            THEN /\ ret.results = ret.before.results
                 /\ ret.seen = ret.before.seen
                 /\ ~ret.keyed
            ELSE /\ ret.keyed
                 /\ ret.results = offer(ret.before.results, ret.before.seen, data[1]).results
                 /\ ret.seen = ret.before.seen \cup {business_key_of(data[1])}

\* A record with the empty name and a phone was passed over, and the named
\* record after it was accepted.
C23_Witness ==
    /\ ret.fn = "collect"
    /\ ret.done = 2
    /\ arg.queue[1] = <<BusinessData(<<>>, Phone11)>>
    /\ IsNamed(arg.queue[2])
    /\ arg.results # <<>>
    /\ ret.results = Append(arg.results, arg.queue[2][1])

\* C24: clean_text is idempotent, clean_text(clean_text(x)) = clean_text(x);
\* None and '' give ''; and the result holds no newline, tab or carriage
\* return and neither starts nor ends with whitespace.
C24_CleanTextIdempotent ==
    ret.fn = "clean_text" =>
        /\ ret.calls = 2 => ret.value = ret.of
        /\ arg.text \in {Absent, <<>>} => ret.value = <<>>
        /\ \A i \in DOMAIN ret.value : ret.value[i] \notin {"\n", "\t", "\r"}
        /\ ret.value # <<>> =>
              ret.value[1] \notin SpaceSet /\ ret.value[Len(ret.value)] \notin SpaceSet

\* The text '\ta\n' was cleaned to 'a', and cleaned again.
C24_Witness ==
    /\ ret.fn = "clean_text"
    /\ ret.calls = 2
    /\ arg.text = <<"\t", "a", "\n">>
    /\ ret.value = <<"a">>

\* C25 as stated: clean_phone returns the input with every '(', ')', '-',
\* space and '+' removed and every other character kept in order; None and ''
\* give ''; clean_phone is idempotent.
WithoutFormatting(s) == LET Kept(c) == c \notin {"(", ")", "-", " ", "+"} IN SelectSeq(s, Kept)
C25_OnlyFormattingRemoved ==
    ret.fn = "clean_phone" =>
        /\ ret.value = IF ret.of = Absent THEN <<>> ELSE WithoutFormatting(ret.of)
        /\ ret.calls = 2 => ret.value = ret.of

\* C25 amended: clean_phone returns the input with every '(', ')', '-', space
\* and '+' removed and then the whitespace at both ends (tab, newline,
\* carriage return) stripped, every other character kept in order, so
\* '+971 (4) 123-4567' gives '97141234567'; None and '' give ''; clean_phone
\* is idempotent.
C25_FormattingRemovedAndStripped ==
    ret.fn = "clean_phone" =>
        /\ ret.value = IF ret.of = Absent THEN <<>> ELSE Strip(WithoutFormatting(ret.of))
        /\ ret.calls = 2 => ret.value = ret.of
        /\ arg.text = FormattedPhone =>
              ret.value = <<"9","7","1","4","1","2","3","4","5","6","7">>
        /\ arg.text \in {Absent, <<>>} => ret.value = <<>>

\* A phone with a leading tab, a '+' and a digit was cleaned to the digit, and
\* cleaned again.
C25_Witness ==
    /\ ret.fn = "clean_phone"
    /\ ret.calls = 2
    /\ arg.text = <<"\t", "+", "1">>
    /\ ret.value = <<"1">>

\* most listings of a results page for which progress_val is evaluated
MaxListings == 25

\* C26: in every reachable state every task's progress is an integer in
\* 0..100, and it is 100 whenever the status is completed; the per-business
\* value 60 + (i*25) // n lies in that range for every 0 <= i < min(n, 20).
C26_ProgressInRange ==
    /\ \A t \in DOMAIN tasks :
          /\ tasks[t].progress \in 0..100
          /\ tasks[t].status = "completed" => tasks[t].progress = 100
    /\ \A n \in 1..MaxListings :
          \A i \in 0..((IF n < ElementLimit THEN n ELSE ElementLimit) - 1) :
              ProgressVal(i, n) \in 0..100

\* One task is completed at 100 while the run of another has reported the
\* per-business value of its third listing of three.
C26_Witness ==
    /\ \E t \in DOMAIN tasks : tasks[t].status = "completed" /\ tasks[t].progress = 100
    /\ active # NoTask
    /\ tasks[active].status = "running"
    /\ n_elements = 3
    /\ tasks[active].progress = ProgressVal(2, 3)

\* C27: last write wins.  After a progress callback (tid, p, m) for an id of
\* the store that task's progress is p and its message m, none of its other
\* fields and no other task has changed; a callback for an id that is not in
\* the store changes nothing; and no callback raises.
C27_LastWriteWins ==
    ret.fn = "progress_callback" =>
        /\ ret.raised = ""
        /\ DOMAIN ret.tasks = DOMAIN arg.tasks
        /\ arg.tid \notin DOMAIN arg.tasks => ret.tasks = arg.tasks
        /\ \A t \in DOMAIN arg.tasks :
              IF t = arg.tid
              THEN /\ ret.tasks[t].progress = arg.progress
                   /\ ret.tasks[t].message = arg.message
                   /\ \A f \in DOMAIN arg.tasks[t] \ {"progress", "message"} :
                         ret.tasks[t][f] = arg.tasks[t][f]
              ELSE ret.tasks[t] = arg.tasks[t]

\* A callback lowered the stored progress 60 of the first of two tasks to 10.
C27_Witness ==
    /\ ret.fn = "progress_callback"
    /\ Len(arg.tasks) = 2
    /\ arg.tid = 1
    /\ arg.tasks[1].progress = 60
    /\ arg.progress = 10
    /\ ret.tasks[1].progress = 10
    /\ ret.tasks[1].message = arg.message
    /\ ret.tasks[1].message # arg.tasks[1].message

\* C28: in every state a status query can observe, which is every state in
\* which no run holds the event loop, completed_at is set exactly for the
\* tasks that are completed or failed, filename is set only for completed
\* tasks, and total_records is 0 for every pending, running or failed task.
C28_TerminalFields ==
    active = NoTask =>
        \A t \in DOMAIN tasks :
            /\ tasks[t].completed_at # NoTime <=> tasks[t].status \in {"completed", "failed"}
            /\ tasks[t].filename # None => tasks[t].status = "completed"
            /\ tasks[t].status \in {"pending", "running", "failed"} =>
                  tasks[t].total_records = 0

\* No run holds the loop, one task is completed with records and a filename,
\* and another has failed.
C28_Witness ==
    /\ active = NoTask
    /\ \E t \in DOMAIN tasks :
          /\ tasks[t].status = "completed"
          /\ tasks[t].total_records > 0
          /\ tasks[t].filename # None
          /\ tasks[t].completed_at # NoTime
    /\ \E t \in DOMAIN tasks :
          /\ tasks[t].status = "failed"
          /\ tasks[t].completed_at # NoTime
          /\ tasks[t].filename = None

\* C29: each successful start_scraping adds exactly one task, under an id that
\* no stored task has, and leaves every stored task and the statistics as they
\* were; no step removes or replaces an entry of the store, so get_all_tasks
\* only grows and get_task_status finds every id start_scraping has returned.
C29_TasksOnlyAdded ==
    /\ [](\A t \in 1..Len(returned) :
             get_task_status(t) # None /\ get_task_status(t)[1].task_id = t)
    /\ [][/\ Len(get_all_tasks') >= Len(get_all_tasks)
          /\ \A i \in DOMAIN get_all_tasks :
                /\ get_all_tasks'[i].task_id = get_all_tasks[i].task_id
                /\ get_all_tasks'[i].created_at = get_all_tasks[i].created_at
                /\ get_all_tasks'[i].scraper_name = get_all_tasks[i].scraper_name
          /\ Len(returned') > Len(returned) =>
                /\ response'.op = "start_scraping"
                /\ response'.raised = ""
                /\ Len(tasks') = Len(tasks) + 1
                /\ \A t \in DOMAIN tasks : tasks'[t] = tasks[t]
                /\ response'.task_id \notin {tasks[t].task_id : t \in DOMAIN tasks}
                /\ tasks'[Len(tasks')].task_id = response'.task_id
                /\ daily_stats' = daily_stats]_vars

\* start_scraping has just added a second task to a store whose first task
\* is completed and counted in the statistics.
C29_Witness ==
    /\ response.op = "start_scraping"
    /\ response.raised = ""
    /\ response.task_id = 2
    /\ Len(get_all_tasks) = 2
    /\ tasks[1].status = "completed"
    /\ tasks[2].status = "pending"
    /\ daily_stats # <<>>
    /\ get_task_status(1) # None

\* C31: the deduplication state belongs to one run.  Every invocation of the
\* scraper starts with an empty seen set and an empty result list; while a run
\* has the loop the seen keys are exactly the keys of the named records this
\* run was offered, one accepted record each, whatever earlier runs accepted;
\* and the total_records a completing run stores is the number of first
\* occurrences of a key among its own offered records.
C31_DedupPrivate ==
    /\ [](active # NoTask =>
             /\ seen_businesses = NamedKeys(offered)
             /\ Len(results) = Cardinality(seen_businesses))
    /\ [][\A t \in DOMAIN tasks :
             /\ invoked'[t] > invoked[t] =>
                   results' = <<>> /\ seen_businesses' = {} /\ offered' = <<>>
             /\ (tasks[t].status # "completed" /\ tasks'[t].status = "completed") =>
                   tasks'[t].total_records = Cardinality(FirstPositions(offered))]_vars

\* The first task completed with a record for every key there is, and the run
\* of the second task has accepted a record for each of these keys too.
C31_Witness ==
    /\ Len(tasks) = 2
    /\ tasks[1].status = "completed"
    /\ tasks[1].total_records = Cardinality({business_key_of(c) : c \in Candidates})
    /\ active = 2
    /\ seen_businesses = {business_key_of(c) : c \in Candidates}
    /\ Len(results) = tasks[1].total_records

\* The number of tasks of the store whose status is `status`, counted entry
\* by entry.
RECURSIVE CountStatus(_, _)
CountStatus(k, status) ==
    IF k = 0 THEN 0
    ELSE CountStatus(k - 1, status) + (IF tasks[k].status = status THEN 1 ELSE 0)

\* C32: in every reachable state the counters of the summary agree with the
\* task store: total_tasks is the number of entries; completed_tasks,
\* running_tasks and failed_tasks count the tasks of these three statuses,
\* which no task shares; and what total_tasks has more than their sum is the
\* number of pending tasks, never negative.
C32_SummaryCounters ==
    LET summary == get_today_summary
        counted == summary.completed_tasks + summary.running_tasks + summary.failed_tasks
    IN  /\ summary.total_tasks = Cardinality(DOMAIN tasks)
        /\ summary.completed_tasks = CountStatus(Len(tasks), "completed")
        /\ summary.running_tasks = CountStatus(Len(tasks), "running")
        /\ summary.failed_tasks = CountStatus(Len(tasks), "failed")
        /\ summary.total_tasks - counted >= 0
        /\ summary.total_tasks - counted = CountStatus(Len(tasks), "pending")

\* One task is running and one is still pending: the summary counts two tasks,
\* one of them running, none completed or failed.
C32_Witness ==
    /\ active # NoTask
    /\ tasks[active].status = "running"
    /\ \E t \in DOMAIN tasks : tasks[t].status = "pending"
    /\ get_today_summary.total_tasks = 2
    /\ get_today_summary.running_tasks = 1
    /\ get_today_summary.completed_tasks = 0
    /\ get_today_summary.failed_tasks = 0

=============================================================================
